---------------------------- MODULE Spec2Model ----------------------------
(***************************************************************************)
(* SpringEmbeddersGPUAlgorithm (src/js/SpringEmbeddersGPUAlgorithm.js):    *)
(* the encoding of a graph into the position, node and adjacency matrices, *)
(* the kernel tick, the write-back onto the nodes, and setProperties.      *)
(*                                                                         *)
(* Numbers.  Node coordinates are fixed-point with one decimal digit (the  *)
(* value times 10), so that the kernel's y + 0.1 is y + 1 and its          *)
(* x + constants.speed is x + 10 * constants.speed.  The four options of   *)
(* setProperties are fixed-point with three decimal digits (the value      *)
(* times 1000).  Matrix indices and degrees are plain integers.  The       *)
(* arithmetic is exact: the rounding of the kernel's float output is not   *)
(* modelled.                                                               *)
(*                                                                         *)
(* A matrix is a function row -> (column -> cell) over 0..size-1, a cell a *)
(* tuple; graph.nodes is a function over 0..N-1, and a node's neighbours   *)
(* is the sequence of the indices in graph.nodes of the nodes it refers    *)
(* to.  Every handler runs to completion (one JavaScript event loop), so   *)
(* every handler is one action.  SpecTick alone splits the tick into the   *)
(* launch of the kernel, its threads in any order, and its return.         *)
(***************************************************************************)
EXTENDS Integers, Sequences, FiniteSets, TLC

VARIABLES
    nodes,            \* this._graph.nodes: [x, y, isFixed, neighbours]
    positionsMatrix,  \* this._positionsMatrix
    adjacencyMatrix,  \* this._adjacencyMatrix
    nodesMatrix,      \* this._nodesMatrix
    kernel,           \* this._kernel: [output, constants]
    speed,            \* this._speed
    springDampening,  \* this._springDampening
    springRestLength, \* this._springRestLength
    charge,           \* this._charge
    run,              \* the kernel run in flight: [phase, out]
    adjWritten,       \* log: the adjacency cells line 136 wrote, in order
    lastTick,         \* log: the last tick on this graph, or NoTick
    lastCall          \* log: the last handler run, its argument, its outcome

vars == <<nodes, positionsMatrix, adjacencyMatrix, nodesMatrix, kernel, speed,
          springDampening, springRestLength, charge, run, adjWritten,
          lastTick, lastCall>>

config == <<speed, springDampening, springRestLength, charge>>

(***************************************************************************)
(* Bounds of the model.                                                    *)
(***************************************************************************)
MaxNodes == 4
MaxTicks == 2
CanvasWidth == 800
CanvasHeight == 600

(***************************************************************************)
(* Values of the program.                                                  *)
(***************************************************************************)
\* -1, the fill of the node and adjacency matrices (lines 103, 106)
Sentinel == -1
\* -1 as a coordinate, the fill of the positions matrix (line 109)
PositionSentinel == -10
\* this._speed = 0.01 (line 11)
DefaultSpeed == 10
\* this._springRestLength = 10 (line 14)
DefaultSpringRestLength == 10000
\* this._springDampening = 1 / 10 (line 15)
DefaultSpringDampening == 100
\* this._charge = 150 * 150 (line 16)
DefaultCharge == 22500000
\* this._kernel.constants.speed = 3 (line 49)
KernelSpeedInit == 3
\* this._kernel.constants.speed += 3 (line 184)
KernelSpeedStep == 3
\* y + 0.1 (line 45)
KernelYStep == 1
\* Math.floor(0 / 0) and 0 % 0 (lines 72, 73): a number that is no index
NaN == -1000000
\* Math.floor(index / 0), index > 0 (line 72): a number that is no index
Infinity == 1000000

(***************************************************************************)
(* Math.ceil(Math.sqrt(n)), lines 94 and 99.                               *)
(***************************************************************************)
CeilSqrt(n) ==
    CHOOSE k \in 0..n : k * k >= n /\ (k = 0 \/ (k - 1) * (k - 1) < n)

(***************************************************************************)
(* _create3dMatrix, lines 53-69: every cell is Array(depth).fill(value)    *)
(* when depth > 1, the value itself when depth = 1.                        *)
(***************************************************************************)
Create3dMatrix(rows, columns, depth, defaultValue) ==
    [row \in 0..(rows - 1) |->
        [col \in 0..(columns - 1) |->
            IF depth = 1 THEN defaultValue
            ELSE [d \in 1..depth |-> defaultValue]]]

(***************************************************************************)
(* _indexToMatrixCoordinates, lines 71-75.  The row divides by `rows`, the *)
(* column takes the remainder by `columns`; % keeps the sign of the index. *)
(***************************************************************************)
\* mutant: row and column exchanged
IndexToMatrixCoordinatesTransposed(index, rows, columns) ==
    IF rows = 0 \/ columns = 0 THEN <<NaN, NaN>>
    ELSE <<index % columns, index \div rows>>

IndexToMatrixCoordinates(index, rows, columns) ==
    LET row == IF rows = 0
                 THEN (IF index = 0 THEN NaN ELSE Infinity)
                 ELSE index \div rows
        col == IF columns = 0 THEN NaN
               ELSE IF index >= 0 THEN index % columns
               ELSE 0 - ((0 - index) % columns)
    IN  <<row, col>>

(***************************************************************************)
(* The graphs handed to the constructor and to setGraph.  The Graph class  *)
(* is not part of the source file; its node collection is ordered and its  *)
(* neighbour relation mirrored (A lists B iff B lists A).  A graph here is *)
(* an undirected graph on the nodes 0..n-1, each node listing its          *)
(* neighbours in ascending order.                                          *)
(***************************************************************************)
RECURSIVE SortedSeq(_)
SortedSeq(S) ==
    IF S = {} THEN << >>
    ELSE LET m == CHOOSE x \in S : \A y \in S : x <= y
         IN  <<m>> \o SortedSeq(S \ {m})

EdgeSets(n) == SUBSET {e \in (0..(n - 1)) \X (0..(n - 1)) : e[1] < e[2]}

NeighbourLists(n, edges) ==
    [i \in 0..(n - 1) |->
        SortedSeq({j \in 0..(n - 1) : <<i, j>> \in edges \/ <<j, i>> \in edges})]

GraphInputs ==
    UNION {{NeighbourLists(n, edges) : edges \in EdgeSets(n)} : n \in 0..MaxNodes}

(***************************************************************************)
(* Math.random(), lines 160-161: the k-th draw of a run of the generator,  *)
(* as 100 * Math.random() in tenths (0..999).  The draws of one run differ *)
(* from each other, so a node's position tells the node.                   *)
(***************************************************************************)
Seeds == {1, 2}

Random100(seed, k) == (seed * 137 + k * 61) % 1000

(***************************************************************************)
(* matrix.length and matrix[row][col] = value.  A column outside the row   *)
(* makes the row array grow; a row outside the matrix is a TypeError,      *)
(* which the callers below test for before they write.                     *)
(***************************************************************************)
Length(matrix) == Cardinality(DOMAIN matrix)

SetCell(matrix, row, col, value) ==
    [matrix EXCEPT ![row] =
        IF col \in DOMAIN @ THEN [@ EXCEPT ![col] = value]
        ELSE @ @@ (col :> value)]

(***************************************************************************)
(* _createGraphMatrices, lines 90-145.  The loop state st holds the three  *)
(* matrices under construction, adjMatrixNextFreeSpotIndex (next), the log *)
(* of the adjacency cells written, and whether a write threw.              *)
(***************************************************************************)
\* mutant: adjMatrixNextFreeSpotIndex is not advanced
EncodeNeighbourNoAdvance(st, neighbourIndex, adjacencyMatrixSize, nodesMatrixSize) ==
    LET adj == IndexToMatrixCoordinates(st.next, adjacencyMatrixSize,
                                        adjacencyMatrixSize)
        neighbourCoords == IndexToMatrixCoordinates(neighbourIndex,
                                        nodesMatrixSize, nodesMatrixSize)
    IN  IF st.threw THEN st
        ELSE IF adj[1] \notin DOMAIN st.adjacencyMatrix
        THEN [st EXCEPT !.threw = TRUE]
        ELSE [st EXCEPT
                !.adjacencyMatrix = SetCell(@, adj[1], adj[2], neighbourCoords),
                !.written = Append(@, adj)]

\* lines 130-139: the body of currentNode.neighbours.forEach
EncodeNeighbour(st, neighbourIndex, adjacencyMatrixSize, nodesMatrixSize) ==
    LET adj == IndexToMatrixCoordinates(st.next, adjacencyMatrixSize,
                                        adjacencyMatrixSize)
        neighbourCoords == IndexToMatrixCoordinates(neighbourIndex,
                                        nodesMatrixSize, nodesMatrixSize)
    IN  IF st.threw THEN st
        ELSE IF adj[1] \notin DOMAIN st.adjacencyMatrix
        THEN [st EXCEPT !.threw = TRUE]
        ELSE [st EXCEPT
                !.adjacencyMatrix = SetCell(@, adj[1], adj[2], neighbourCoords),
                !.written = Append(@, adj),
                !.next = @ + 1]

\* mutant: the neighbours are stored last to first
RECURSIVE EncodeNeighboursReversed(_, _, _, _, _)
EncodeNeighboursReversed(st, neighbours, k, adjacencyMatrixSize, nodesMatrixSize) ==
    IF k > Len(neighbours) THEN st
    ELSE EncodeNeighboursReversed(
            EncodeNeighbour(st, neighbours[Len(neighbours) + 1 - k],
                            adjacencyMatrixSize, nodesMatrixSize),
            neighbours, k + 1, adjacencyMatrixSize, nodesMatrixSize)

RECURSIVE EncodeNeighbours(_, _, _, _, _)
EncodeNeighbours(st, neighbours, k, adjacencyMatrixSize, nodesMatrixSize) ==
    IF k > Len(neighbours) THEN st
    ELSE EncodeNeighbours(
            EncodeNeighbour(st, neighbours[k], adjacencyMatrixSize,
                            nodesMatrixSize),
            neighbours, k + 1, adjacencyMatrixSize, nodesMatrixSize)

\* lines 114-139: the body of the loop over graph.nodes
EncodeNode(st, i, currentNode, adjacencyMatrixSize, nodesMatrixSize) ==
    LET adj == IndexToMatrixCoordinates(st.next, adjacencyMatrixSize,
                                        adjacencyMatrixSize)
        node == IndexToMatrixCoordinates(i, nodesMatrixSize, nodesMatrixSize)
    IN  IF st.threw THEN st
        ELSE IF node[1] \notin DOMAIN st.nodesMatrix
        THEN [st EXCEPT !.threw = TRUE]
        ELSE EncodeNeighbours(
                [st EXCEPT
                    !.nodesMatrix = SetCell(@, node[1], node[2],
                        <<adj[1], adj[2], Len(currentNode.neighbours)>>),
                    !.positionsMatrix = SetCell(@, node[1], node[2],
                        <<currentNode.x, currentNode.y>>)],
                currentNode.neighbours, 1, adjacencyMatrixSize,
                nodesMatrixSize)

RECURSIVE EncodeNodes(_, _, _, _, _)
EncodeNodes(st, i, graphNodes, adjacencyMatrixSize, nodesMatrixSize) ==
    IF i >= Length(graphNodes) THEN st
    ELSE EncodeNodes(
            EncodeNode(st, i, graphNodes[i], adjacencyMatrixSize,
                       nodesMatrixSize),
            i + 1, graphNodes, adjacencyMatrixSize, nodesMatrixSize)

\* line 98: the sum of the nodes' neighbours.length
RECURSIVE SumDegrees(_, _)
SumDegrees(graphNodes, i) ==
    IF i >= Length(graphNodes) THEN 0
    ELSE Len(graphNodes[i].neighbours) + SumDegrees(graphNodes, i + 1)

TotalNumberOfEdges(graphNodes) == SumDegrees(graphNodes, 0)

\* line 94
NodesMatrixSize(graphNodes) == CeilSqrt(Length(graphNodes))

\* line 99
AdjacencyMatrixSize(graphNodes) == CeilSqrt(TotalNumberOfEdges(graphNodes))

CreateGraphMatrices(graphNodes) ==
    LET nodesMatrixSize == NodesMatrixSize(graphNodes)
        adjacencyMatrixSize == AdjacencyMatrixSize(graphNodes)
    IN  EncodeNodes(
            [nodesMatrix |-> Create3dMatrix(nodesMatrixSize, nodesMatrixSize,
                                            3, Sentinel),
             adjacencyMatrix |-> Create3dMatrix(adjacencyMatrixSize,
                                            adjacencyMatrixSize, 2, Sentinel),
             positionsMatrix |-> Create3dMatrix(nodesMatrixSize,
                                            nodesMatrixSize, 2,
                                            PositionSentinel),
             next |-> 0,
             written |-> << >>,
             threw |-> FALSE],
            0, graphNodes, adjacencyMatrixSize, nodesMatrixSize)

(***************************************************************************)
(* _createKernel, lines 35-51: the output size is that of the nodes matrix *)
(* at creation, and constants.speed starts at 3.                           *)
(***************************************************************************)
CreateKernel(matrix) ==
    [output |-> Length(matrix), constants |-> [speed |-> KernelSpeedInit]]

\* lines 39-46: one thread of the kernel, reading its own cell of the argument
KernelCell(positions, constants, row, col) ==
    LET cell == positions[row][col]
    IN  <<cell[1] + 10 * constants.speed, cell[2] + KernelYStep>>

\* line 187: this._kernel(this._positionsMatrix), every thread of the output
KernelRun(k, positions) ==
    [row \in 0..(k.output - 1) |->
        [col \in 0..(k.output - 1) |->
            KernelCell(positions, k.constants, row, col)]]

(***************************************************************************)
(* setGraph, lines 157-166, with _setUpGPU, lines 152-155.  The result of  *)
(* the call on a graph whose nodes list `neighbourLists`, the generator    *)
(* being in the run `seed`.                                                *)
(***************************************************************************)
\* lines 159-163
RandomizedNodes(neighbourLists, seed) ==
    [i \in DOMAIN neighbourLists |->
        [x |-> (CanvasWidth * 10) \div 2 + Random100(seed, 2 * i) - 500,
         y |-> (CanvasHeight * 10) \div 2 + (Random100(seed, 2 * i + 1) - 500),
         isFixed |-> FALSE,
         neighbours |-> neighbourLists[i]]]

NoTick == [ran |-> FALSE, config |-> << >>, displacement |-> << >>]

Call(op, arg, threw) == [op |-> op, arg |-> arg, threw |-> threw]

Idle == [phase |-> "idle", out |-> << >>]

\* this._kernel = null (line 23)
NoKernel == [output |-> 0, constants |-> [speed |-> 0]]

\* a method of the engine can be called: the constructor has returned an
\* engine, and no call is under way
Callable ==
    /\ run.phase = "idle"
    /\ ~(lastCall.op = "constructor" /\ lastCall.threw)

\* The state setGraph leaves: the graph's nodes, and what _setUpGPU built.
SetGraphResult(neighbourLists, seed) ==
    LET graphNodes == RandomizedNodes(neighbourLists, seed)
    IN  [nodes |-> graphNodes, matrices |-> CreateGraphMatrices(graphNodes)]

AfterSetGraph(result, op) ==
    /\ nodes' = result.nodes
    /\ lastTick' = NoTick
    /\ lastCall' = Call(op, << >>, result.matrices.threw)
    /\ IF result.matrices.threw
       THEN UNCHANGED <<positionsMatrix, adjacencyMatrix, nodesMatrix, kernel,
                        adjWritten>>
       ELSE /\ positionsMatrix' = result.matrices.positionsMatrix
            /\ adjacencyMatrix' = result.matrices.adjacencyMatrix
            /\ nodesMatrix' = result.matrices.nodesMatrix
            /\ kernel' = CreateKernel(result.matrices.nodesMatrix)
            /\ adjWritten' = result.matrices.written

SetGraph(result) ==
    /\ Callable
    /\ AfterSetGraph(result, "setGraph")
    /\ UNCHANGED <<config, run>>

(***************************************************************************)
(* The constructor, lines 4-26: the defaults, empty matrices, no kernel,   *)
(* then setGraph(graph).  When setGraph throws, so does the constructor,   *)
(* and there is no engine to call (Callable).                              *)
(***************************************************************************)
Constructed(result) ==
    /\ speed = DefaultSpeed
    /\ springRestLength = DefaultSpringRestLength
    /\ springDampening = DefaultSpringDampening
    /\ charge = DefaultCharge
    /\ nodes = result.nodes
    /\ IF result.matrices.threw
       THEN /\ positionsMatrix = << >>
            /\ adjacencyMatrix = << >>
            /\ nodesMatrix = << >>
            /\ kernel = NoKernel
       ELSE /\ positionsMatrix = result.matrices.positionsMatrix
            /\ adjacencyMatrix = result.matrices.adjacencyMatrix
            /\ nodesMatrix = result.matrices.nodesMatrix
            /\ kernel = CreateKernel(result.matrices.nodesMatrix)
    /\ run = Idle
    /\ adjWritten = result.matrices.written
    /\ lastTick = NoTick
    /\ lastCall = Call("constructor", << >>, result.matrices.threw)

(***************************************************************************)
(* computeNextPositions, lines 183-202.                                    *)
(***************************************************************************)
\* lines 192-201: the cell the loop reads last for node nodeIndex, if any
WriteBackCells(matrix, nodeIndex) ==
    LET rows == Length(matrix)
        columns == Length(matrix[0])
    IN  {cell \in (0..(rows - 1)) \X (0..(columns - 1)) :
            cell[1] * rows + cell[2] = nodeIndex}

WriteBack(graphNodes, matrix) ==
    [nodeIndex \in DOMAIN graphNodes |->
        LET cells == WriteBackCells(matrix, nodeIndex)
        IN  IF cells = {} THEN graphNodes[nodeIndex]
            ELSE LET last == CHOOSE cell \in cells :
                                \A other \in cells : other[1] <= cell[1]
                 IN  [graphNodes[nodeIndex] EXCEPT
                        !.x = matrix[last[1]][last[2]][1],
                        !.y = matrix[last[1]][last[2]][2]]]

Displacement(before, after) ==
    [i \in DOMAIN before |->
        <<after[i].x - before[i].x, after[i].y - before[i].y>>]

\* lines 184-185
SteppedKernel == [kernel EXCEPT !.constants.speed = @ + KernelSpeedStep]

TickAllowed ==
    kernel.constants.speed < KernelSpeedInit + KernelSpeedStep * MaxTicks

\* lines 187-201, from the kernel's result on: the assignment of the result,
\* then the write-back
TickReturn(next) ==
    LET \* line 190: this._positionsMatrix[0] is undefined in an empty matrix
        threw == 0 \notin DOMAIN next
        written == IF threw THEN nodes ELSE WriteBack(nodes, next)
    IN  /\ positionsMatrix' = next
        /\ nodes' = written
        /\ lastTick' = [ran |-> TRUE, config |-> config,
                        displacement |-> Displacement(nodes, written)]
        /\ lastCall' = Call("computeNextPositions", << >>, threw)
        /\ UNCHANGED <<adjacencyMatrix, nodesMatrix, adjWritten, config>>

ComputeNextPositions ==
    /\ Callable
    /\ TickAllowed
    /\ kernel' = SteppedKernel
    /\ TickReturn(KernelRun(SteppedKernel, positionsMatrix))
    /\ UNCHANGED run

(***************************************************************************)
(* The same call in the steps of the kernel run: the launch (lines         *)
(* 184-187), the threads of the output, one cell each and in any order     *)
(* (lines 39-46), and the return (lines 187-201).                          *)
(***************************************************************************)
KernelLaunch ==
    /\ Callable
    /\ TickAllowed
    /\ kernel' = SteppedKernel
    /\ run' = [phase |-> "kernel", out |-> << >>]
    /\ UNCHANGED <<nodes, positionsMatrix, adjacencyMatrix, nodesMatrix,
                   config, adjWritten, lastTick, lastCall>>

\* mutant: the thread writes its cell into the matrix it reads
KernelThreadInPlace(row, col) ==
    /\ run.phase = "kernel"
    /\ <<row, col>> \notin DOMAIN run.out
    /\ run' = [run EXCEPT !.out = @ @@ (<<row, col>> :>
                    KernelCell(positionsMatrix, kernel.constants, row, col))]
    /\ positionsMatrix' = SetCell(positionsMatrix, row, col,
                    KernelCell(positionsMatrix, kernel.constants, row, col))
    /\ UNCHANGED <<nodes, adjacencyMatrix, nodesMatrix, kernel,
                   config, adjWritten, lastTick, lastCall>>

KernelThread(row, col) ==
    /\ run.phase = "kernel"
    /\ <<row, col>> \notin DOMAIN run.out
    /\ run' = [run EXCEPT !.out = @ @@ (<<row, col>> :>
                    KernelCell(positionsMatrix, kernel.constants, row, col))]
    /\ UNCHANGED <<nodes, positionsMatrix, adjacencyMatrix, nodesMatrix, kernel,
                   config, adjWritten, lastTick, lastCall>>

KernelReturn ==
    /\ run.phase = "kernel"
    /\ DOMAIN run.out = (0..(kernel.output - 1)) \X (0..(kernel.output - 1))
    /\ run' = Idle
    /\ TickReturn([row \in 0..(kernel.output - 1) |->
                    [col \in 0..(kernel.output - 1) |-> run.out[<<row, col>>]]])
    /\ UNCHANGED kernel

(***************************************************************************)
(* setProperties, lines 28-33.  The argument is a function from the option *)
(* names it holds to their values; `value || prior` keeps the prior value  *)
(* when the option is absent or its value is falsy (0).                    *)
(***************************************************************************)
Options == {"speed", "springDampening", "springRestLength", "charge"}

OptionValues == {0, -5, 20}

Properties == UNION {[given -> OptionValues] : given \in SUBSET Options}

\* mutant: `value ?? prior`, which keeps a given 0
OrNullish(properties, option, prior) ==
    IF option \in DOMAIN properties THEN properties[option] ELSE prior

Or(properties, option, prior) ==
    IF option \in DOMAIN properties /\ properties[option] # 0
    THEN properties[option]
    ELSE prior

SetProperties(properties) ==
    /\ speed' = Or(properties, "speed", speed)
    /\ springDampening' = Or(properties, "springDampening", springDampening)
    /\ springRestLength' = Or(properties, "springRestLength", springRestLength)
    /\ charge' = Or(properties, "charge", charge)
    /\ Callable
    /\ lastCall' = Call("setProperties", properties, FALSE)
    /\ UNCHANGED <<nodes, positionsMatrix, adjacencyMatrix, nodesMatrix, kernel,
                   run, adjWritten, lastTick>>

(***************************************************************************)
(* The host application setting a node's fixed flag (a drag): the flag is  *)
(* a field of the caller's node objects, which setGraph clears (line 162). *)
(***************************************************************************)
SetFixed(i, flag) ==
    /\ i \in DOMAIN nodes
    /\ nodes[i].isFixed # flag
    /\ nodes' = [nodes EXCEPT ![i].isFixed = flag]
    /\ Callable
    /\ lastCall' = Call("setFixed", <<i, flag>>, FALSE)
    /\ UNCHANGED <<positionsMatrix, adjacencyMatrix, nodesMatrix, kernel,
                   run, adjWritten, lastTick, config>>

(***************************************************************************)
(* Specifications.  setProperties writes the four options and nothing      *)
(* reads them; the fixed flag is written by setGraph and by the host and   *)
(* nothing reads it.  So the three specifications explore one dimension    *)
(* each: Spec the encoding and the ticks of every graph of GraphInputs,    *)
(* SpecFixed the fixed flags and the ticks, SpecConfig the options,        *)
(* SpecSpeed the speed option and the ticks, SpecTick the steps of a tick. *)
(*                                                                         *)
(* The constructor runs setGraph, and setGraph leaves nothing of the graph *)
(* it replaces: a reload reaches the states the constructor reaches on the *)
(* same graph.  The initial states cover every graph of GraphInputs, the   *)
(* reloads the graphs of up to SmallNodes nodes.                           *)
(***************************************************************************)
SmallNodes == 2

SmallGraphInputs == {g \in GraphInputs : Length(g) <= SmallNodes}

\* the graph 0 - 1
PairGraph == NeighbourLists(2, {<<0, 1>>})

\* what setGraph leaves, for every graph and every run of the generator
SetGraphResults ==
    {SetGraphResult(g, seed) : g \in GraphInputs, seed \in Seeds}

SmallSetGraphResults ==
    {SetGraphResult(g, seed) : g \in SmallGraphInputs, seed \in Seeds}

Init == \E result \in SetGraphResults : Constructed(result)

SetGraphStep == \E result \in SmallSetGraphResults : SetGraph(result)

Next == SetGraphStep \/ ComputeNextPositions

Spec == Init /\ [][Next]_vars

InitSmall == \E result \in SmallSetGraphResults : Constructed(result)

SetFixedStep == \E i \in 0..(MaxNodes - 1), flag \in BOOLEAN : SetFixed(i, flag)

NextFixed == SetFixedStep \/ ComputeNextPositions \/ SetGraphStep

SpecFixed == InitSmall /\ [][NextFixed]_vars

InitPair == Constructed(SetGraphResult(PairGraph, 1))

SetPropertiesStep == \E properties \in Properties : SetProperties(properties)

SpecConfig == InitPair /\ [][SetPropertiesStep]_vars

\* the arguments that hold no option but the speed
SpeedProperties == {properties \in Properties : DOMAIN properties \subseteq {"speed"}}

SetSpeedStep == \E properties \in SpeedProperties : SetProperties(properties)

NextSpeed == SetSpeedStep \/ ComputeNextPositions

SpecSpeed == InitSmall /\ [][NextSpeed]_vars

KernelThreadStep ==
    \E row \in 0..(kernel.output - 1), col \in 0..(kernel.output - 1) :
        KernelThread(row, col)

NextTick == KernelLaunch \/ KernelThreadStep \/ KernelReturn \/ SetGraphStep

SpecTick == InitSmall /\ [][NextTick]_vars

(***************************************************************************)
(* Shorthands of the properties below, in the terms of the specification:  *)
(* N nodes, P = ceil(sqrt(N)), E directed neighbour links,                 *)
(* A = ceil(sqrt(E)), node i at the cell (floor(i / P), i mod P).          *)
(***************************************************************************)
N == Cardinality(DOMAIN nodes)

P == CeilSqrt(N)

Links == {link \in (DOMAIN nodes) \X (1..MaxNodes) :
            link[2] <= Len(nodes[link[1]].neighbours)}

E == Cardinality(Links)

A == CeilSqrt(E)

RowOf(i, side) == i \div side

ColOf(i, side) == i % side

NodeCell(matrix, i) == matrix[RowOf(i, P)][ColOf(i, P)]

IsSquare(matrix, side) ==
    /\ DOMAIN matrix = 0..(side - 1)
    /\ \A row \in DOMAIN matrix : DOMAIN matrix[row] = 0..(side - 1)

Ticked == lastCall.op = "computeNextPositions"

(***************************************************************************)
(* C4.  Encode/decode round trip: the positions matrix is P x P; node i's  *)
(* (x, y) is in the cell (floor(i / P), i mod P), after setGraph and after *)
(* every tick; the write-back loop takes that cell, and no other, for node *)
(* i, and takes no node for a padding cell (a cell whose row * P + col is  *)
(* N or more); writing an unchanged matrix back leaves every node's (x, y) *)
(* as it is.                                                               *)
(***************************************************************************)
C4_EncodeDecodeRoundTrip ==
    /\ IsSquare(positionsMatrix, P)
    /\ \A i \in DOMAIN nodes :
        /\ NodeCell(positionsMatrix, i) = <<nodes[i].x, nodes[i].y>>
        /\ WriteBackCells(positionsMatrix, i) = {<<RowOf(i, P), ColOf(i, P)>>}
    /\ \A row \in 0..(P - 1), col \in 0..(P - 1) :
        \/ row * P + col >= N
        \/ <<row, col>> = <<RowOf(row * P + col, P), ColOf(row * P + col, P)>>
    /\ N > 0 => WriteBack(nodes, positionsMatrix) = nodes

\* a tick has written back a graph of three nodes: a 2 x 2 matrix, one padding cell
C4_Witness == Ticked /\ N = 3 /\ ~lastCall.threw

(***************************************************************************)
(* C5.  Degree accounting: the third component of node i's cell of the     *)
(* nodes matrix is the number of i's neighbours; the adjacency matrix is   *)
(* A x A; the adjacency cells written are, in order, the cells of the      *)
(* row-major indices 0, 1, ..., E - 1 of the A x A matrix: each once, none *)
(* skipped, none outside the matrix.                                       *)
(***************************************************************************)
C5_DegreeAccounting ==
    /\ IsSquare(nodesMatrix, P)
    /\ IsSquare(adjacencyMatrix, A)
    /\ \A i \in DOMAIN nodes :
        NodeCell(nodesMatrix, i)[3] = Len(nodes[i].neighbours)
    /\ Len(adjWritten) = E
    /\ \A k \in 1..Len(adjWritten) :
        /\ adjWritten[k] = <<RowOf(k - 1, A), ColOf(k - 1, A)>>
        /\ adjWritten[k][1] \in 0..(A - 1)
        /\ adjWritten[k][2] \in 0..(A - 1)
    /\ \A k1, k2 \in 1..Len(adjWritten) :
        k1 # k2 => adjWritten[k1] # adjWritten[k2]

\* six links in a 3 x 3 adjacency matrix: the runs cross rows and leave a gap
C5_Witness == E = 6 /\ A = 3 /\ N = 4 /\ Len(adjWritten) = 6

(***************************************************************************)
(* C6.  Neighbour-list recovery.  AdjacencyRun(i) is what `degree` reads   *)
(* give, starting at the (adjRow, adjCol) of node i's cell of the nodes    *)
(* matrix and going on in row-major order, at the end of a row to the      *)
(* start of the next.                                                      *)
(***************************************************************************)
ValidStart(cell) == cell[1] \in 0..(A - 1) /\ cell[2] \in 0..(A - 1)

AdjacencyRun(i) ==
    LET cell == NodeCell(nodesMatrix, i)
    IN  [k \in 1..cell[3] |->
            LET index == cell[1] * A + cell[2] + (k - 1)
            IN  adjacencyMatrix[RowOf(index, A)][ColOf(index, A)]]

NeighbourCoordinates(i) ==
    [k \in 1..Len(nodes[i].neighbours) |->
        <<RowOf(nodes[i].neighbours[k], P), ColOf(nodes[i].neighbours[k], P)>>]

\* C6 as claimed: the recorded start of every node is a cell of the
\* adjacency matrix, and the run read from it is the node's neighbour list.
C6_StartValidForEveryNode ==
    \A i \in DOMAIN nodes :
        /\ ValidStart(NodeCell(nodesMatrix, i))
        /\ AdjacencyRun(i) = NeighbourCoordinates(i)

\* the links of the nodes before node i: the cursor when i is encoded
LinksBefore(i) == Cardinality({link \in Links : link[1] < i})

\* C6 amended: the cell of every node holds its degree and, as the start,
\* the row-major coordinates of the number of links of the nodes before it
\* ((NaN, NaN) when there is no link at all); the start of every node that
\* has a neighbour is a cell of the adjacency matrix, and the run of `degree`
\* cells read from it is the grid coordinates of its neighbours, in the order
\* of its neighbour list.  (No cell is read for a node of degree 0, whose
\* start is outside the matrix when E = 0 or when E = A * A links precede it.)
C6_NeighbourListRecovery ==
    \A i \in DOMAIN nodes :
        LET cell == NodeCell(nodesMatrix, i)
        IN  /\ cell[3] = Len(nodes[i].neighbours)
            /\ <<cell[1], cell[2]>> =
                    IF A = 0 THEN <<NaN, NaN>>
                    ELSE <<RowOf(LinksBefore(i), A), ColOf(LinksBefore(i), A)>>
            /\ cell[3] > 0 =>
                /\ ValidStart(cell)
                /\ AdjacencyRun(i) = NeighbourCoordinates(i)

\* a run that wraps: it starts in the last column and holds two different
\* neighbours; and a node whose start is outside the matrix
C6_Witness ==
    /\ \E i \in DOMAIN nodes :
        LET cell == NodeCell(nodesMatrix, i)
        IN  /\ cell[3] >= 2
            /\ cell[2] = A - 1
            /\ nodes[i].neighbours[1] # nodes[i].neighbours[2]
    /\ \E i \in DOMAIN nodes : ~ValidStart(NodeCell(nodesMatrix, i))

(***************************************************************************)
(* C7.  No-op on the empty graph: with no node, the three matrices are     *)
(* 0 x 0, and a computeNextPositions call ends without an error and        *)
(* leaves the matrices, the kernel, the nodes and the options as they are. *)
(***************************************************************************)
engine == <<nodes, positionsMatrix, adjacencyMatrix, nodesMatrix, kernel,
            config>>

C7_EmptyGraphStepIsNoOp ==
    /\ [](N = 0 => /\ positionsMatrix = << >>
                   /\ nodesMatrix = << >>
                   /\ adjacencyMatrix = << >>)
    /\ [][(N = 0 /\ lastCall'.op = "computeNextPositions")
            => (~lastCall'.threw /\ UNCHANGED engine)]_vars

(***************************************************************************)
(* C8.  Padding cells carry the sentinel in every reachable state: the     *)
(* cells of the positions matrix and of the nodes matrix whose index       *)
(* row * P + col is N or more, and the cells of the adjacency matrix whose *)
(* index row * A + col is E or more.                                       *)
(***************************************************************************)
C8_PaddingKeepsSentinel ==
    /\ \A row \in 0..(P - 1), col \in 0..(P - 1) :
        row * P + col >= N =>
            /\ positionsMatrix[row][col] = <<PositionSentinel, PositionSentinel>>
            /\ nodesMatrix[row][col] = <<Sentinel, Sentinel, Sentinel>>
    /\ \A row \in 0..(A - 1), col \in 0..(A - 1) :
        row * A + col >= E => adjacencyMatrix[row][col] = <<Sentinel, Sentinel>>

(***************************************************************************)
(* C1.  Fixed-node invariance: a computeNextPositions call leaves the      *)
(* (x, y) of every node whose isFixed is true as it was.                   *)
(***************************************************************************)
C1_FixedNodeInvariance ==
    [][lastCall'.op = "computeNextPositions" =>
        \A i \in DOMAIN nodes :
            nodes[i].isFixed =>
                nodes'[i].x = nodes[i].x /\ nodes'[i].y = nodes[i].y]_vars

(***************************************************************************)
(* C2.  Partial config merge: a setProperties call leaves every option     *)
(* that its argument does not hold, or holds as 0, at its prior value,     *)
(* sets every other option to the value given, and leaves the three        *)
(* matrices and the nodes as they are.                                     *)
(***************************************************************************)
OptionValue(option) ==
    CASE option = "speed" -> speed
      [] option = "springDampening" -> springDampening
      [] option = "springRestLength" -> springRestLength
      [] option = "charge" -> charge

C2_PartialConfigMerge ==
    [][lastCall'.op = "setProperties" =>
        /\ \A option \in Options :
            IF option \in DOMAIN lastCall'.arg /\ lastCall'.arg[option] # 0
            THEN OptionValue(option)' = lastCall'.arg[option]
            ELSE OptionValue(option)' = OptionValue(option)
        /\ UNCHANGED <<positionsMatrix, adjacencyMatrix, nodesMatrix, nodes>>
      ]_vars

\* setProperties({charge: 0.02}) on an engine whose speed was set before:
\* the charge is the one given, the other three options are kept
C2_Witness ==
    /\ lastCall.op = "setProperties"
    /\ DOMAIN lastCall.arg = {"charge"}
    /\ charge = 20
    /\ speed = -5
    /\ springDampening = DefaultSpringDampening
    /\ springRestLength = DefaultSpringRestLength

(***************************************************************************)
(* C3.  Invalid configuration is rejected per field: the speed and the     *)
(* spring rest length are positive in every reachable state, and a         *)
(* setProperties call that gives one of them a value of 0 or less leaves   *)
(* it at its prior value.                                                  *)
(***************************************************************************)
C3_InvalidConfigurationRejected ==
    /\ [](speed > 0 /\ springRestLength > 0)
    /\ [][lastCall'.op = "setProperties" =>
            \A option \in {"speed", "springRestLength"} :
                (option \in DOMAIN lastCall'.arg /\ lastCall'.arg[option] <= 0)
                    => OptionValue(option)' = OptionValue(option)]_vars

(***************************************************************************)
(* C10.  Integration uses the configured speed: the displacement of a tick *)
(* is the node's net force times the speed option.  The net force depends  *)
(* on the differences of the positions, on the graph and on the three      *)
(* other options: when the tick before moved every node by the same        *)
(* vector and those options are as they were, the force is the same, and   *)
(* the two displacements of a node are in the ratio of the two speeds.     *)
(***************************************************************************)
SameForceAsLastTick ==
    /\ lastTick.ran
    /\ \A i, j \in DOMAIN lastTick.displacement :
        lastTick.displacement[i] = lastTick.displacement[j]
    /\ lastTick.config[2] = springDampening
    /\ lastTick.config[3] = springRestLength
    /\ lastTick.config[4] = charge

C10_DisplacementScalesWithSpeed ==
    [][(lastCall'.op = "computeNextPositions" /\ SameForceAsLastTick) =>
        \A i \in DOMAIN nodes : \A axis \in 1..2 :
            lastTick'.displacement[i][axis] * lastTick.config[1]
                = lastTick.displacement[i][axis] * speed]_vars

(***************************************************************************)
(* C9.  Tick atomicity and snapshot reads.  In the steps of a tick: the    *)
(* positions matrix changes in the return alone, where every cell of the   *)
(* new matrix is the kernel's function of the same cell of the matrix the  *)
(* tick started from, whatever the order of the threads; the nodes matrix  *)
(* and the adjacency matrix do not change; the nodes change in the return  *)
(* alone, to the cells of the new matrix; and between calls every node's   *)
(* (x, y) is its cell of the positions matrix.                             *)
(***************************************************************************)
TickStep == run.phase = "kernel" \/ run'.phase = "kernel"

NextOf(cell) ==
    <<cell[1] + 10 * kernel.constants.speed, cell[2] + KernelYStep>>

C9_TickAtomicSnapshot ==
    /\ [][TickStep =>
            /\ UNCHANGED <<nodesMatrix, adjacencyMatrix>>
            /\ run'.phase = "kernel" => UNCHANGED <<positionsMatrix, nodes>>
            /\ run'.phase = "idle" =>
                /\ DOMAIN positionsMatrix' = DOMAIN positionsMatrix
                /\ \A row \in DOMAIN positionsMatrix :
                    /\ DOMAIN positionsMatrix'[row] = DOMAIN positionsMatrix[row]
                    /\ \A col \in DOMAIN positionsMatrix[row] :
                        positionsMatrix'[row][col]
                            = NextOf(positionsMatrix[row][col])
                /\ \A i \in DOMAIN nodes :
                    <<nodes'[i].x, nodes'[i].y>>
                        = positionsMatrix'[RowOf(i, P)][ColOf(i, P)]]_vars
    /\ [](run.phase = "idle" =>
            \A i \in DOMAIN nodes :
                <<nodes[i].x, nodes[i].y>> = NodeCell(positionsMatrix, i))

\* a tick of a 2 x 2 matrix has returned, and the four threads of the next
\* tick have run
C9_Witness ==
    /\ run.phase = "kernel"
    /\ Cardinality(DOMAIN run.out) = 4
    /\ lastTick.ran
    /\ N = 2

====
